---- MODULE Spec2Model ----
(***************************************************************************)
(* Table Query Bridge of the O3GO_WA dashboard (React client).             *)
(*                                                                         *)
(* The module models the list tables of the React client: the UI state of  *)
(* a table (sorting, column filters, URL filters, search text, page), the  *)
(* list requests it has in flight, the query string each fetcher builds    *)
(* and the way each fetcher turns a JSON response into rows and a total.   *)
(*                                                                         *)
(* Strings are sequences of lexemes (<<"skip", "=", "10">>), JSON values   *)
(* are records [t, n, l] (type tag, number, elements or lexemes).          *)
(***************************************************************************)
EXTENDS Integers, Sequences, FiniteSets, TLC

VARIABLES
    tbl,            \* which table component is mounted
    sorting,        \* useState<SortingState>
    columnFilters,  \* useState<ColumnFiltersState>
    advFilters,     \* useQueryState("filters")
    capturedAdv,    \* advFilters as closed over by the memoized fetcher
    globalFilter,   \* useState("") search text
    pageIndex,      \* pagination cursor
    pageSize,       \* page size of the pagination state
    data,           \* rows shown (setData / setSessions / setAccounts / setUsers)
    total,          \* setTotal, where the component keeps one
    loading,        \* setLoading
    view,           \* UsersTable view state
    currentUser,    \* UsersTable currentUser state
    requests,       \* list GETs: request id -> "none" | "pending" | "ok" | "fail"
    nextId,         \* id of the next list GET
    lastQuery,      \* query string of the most recently issued list GET
    pendingDeletes, \* DELETE calls in flight, each with the arguments its handler closed over
    response,       \* body the most recently completed list GET resolved with (NoBody: none, or it threw)
    client,         \* which dashboard the browser has loaded: the React one or the Kendo one
    token,          \* localStorage item "token"
    isAuth,         \* DashboardLayout isAuth state / window.isAuth of the Kendo pages
    location,       \* the page the browser is on
    testToken,      \* the POST /auth/test-token call of the token check
    call,           \* the apiFetch call made last
    loginForm,      \* LoginPage: the login attempt, its loading and error state
    gridState,      \* the request state a Kendo DataSource hands to parameterMap
    gridParams      \* what parameterMap returned for the last read

tableVars == <<tbl, sorting, columnFilters, advFilters, capturedAdv, globalFilter,
               pageIndex, pageSize, data, total, loading, view, currentUser, requests,
               nextId, lastQuery, pendingDeletes, response>>

sessionVars == <<client, token, isAuth, location, testToken, call, loginForm>>

gridVars == <<gridState, gridParams>>

vars == <<tableVars, sessionVars, gridVars>>

(***************************************************************************)
(* Bounds                                                                  *)
(***************************************************************************)
MaxRows == 2
MaxTotal == 3
MaxReq == 3
MaxPage == 1
MaxDeletes == 1
MaxSortLen == 2

(***************************************************************************)
(* JSON / JavaScript values                                                *)
(***************************************************************************)
Undef == [t |-> "undef", n |-> 0, l |-> <<>>]
Null == [t |-> "null", n |-> 0, l |-> <<>>]
Obj == [t |-> "object", n |-> 0, l |-> <<>>]
Num(k) == [t |-> "num", n |-> k, l |-> <<>>]
Str(s) == [t |-> "str", n |-> 0, l |-> s]
List(s) == [t |-> "list", n |-> 0, l |-> s]

\* a ?? b
Coalesce(a, b) == IF a.t \in {"undef", "null"} THEN b ELSE a

\* Array.isArray(v)
IsArray(v) == v.t = "list"

\* v.length
Length(v) == IF v.t \in {"list", "str"} THEN Num(Len(v.l)) ELSE Undef

\* ToBoolean(v)
Truthy(v) ==
    CASE v.t \in {"undef", "null"} -> FALSE
      [] v.t = "num" -> v.n # 0
      [] v.t = "str" -> v.l # <<>>
      [] OTHER -> TRUE

\* A response body: a JSON list, a JSON object with the four fields the
\* fetchers may look at, or JSON null.
Body(t, l, d, i, r, tot) ==
    [t |-> t, n |-> 0, l |-> l, data |-> d, items |-> i, results |-> r, total |-> tot]
ListBody(s) == Body("list", s, Undef, Undef, Undef, Undef)
ObjBody(d, i, r, tot) == Body("object", <<>>, d, i, r, tot)
NullBody == Body("null", <<>>, Undef, Undef, Undef, Undef)
NoBody == Body("none", <<>>, Undef, Undef, Undef, Undef)

\* res as a value (what `res` itself evaluates to in `... ?? res`)
Self(res) == [t |-> res.t, n |-> 0, l |-> res.l]

\* res.data, res.items, res.total: arrays carry none of these properties
PropData(res) == IF res.t = "object" THEN res.data ELSE Undef
PropItems(res) == IF res.t = "object" THEN res.items ELSE Undef
PropTotal(res) == IF res.t = "object" THEN res.total ELSE Undef

(***************************************************************************)
(* The table components                                                    *)
(***************************************************************************)
Tables == {"SessionsQ", "AccountsQ", "UsersQ", "SessionsAdv", "AccountsAdv",
           "UsersAdv", "AccountsBasic", "UsersBasic"}

\* components that keep a `total` state next to the rows
HasTotal(t) == t \in {"SessionsQ", "AccountsQ", "UsersQ", "UsersAdv"}

\* variant: the chain goes on to res.results
CoalesceResult_WithResults(res) ==
    Coalesce(PropData(res), Coalesce(PropItems(res),
        IF res.t = "object" THEN Coalesce(res.results, Self(res)) ELSE Self(res)))

\* const result = res.data ?? res.items ?? res
CoalesceResult(res) == Coalesce(PropData(res), Coalesce(PropItems(res), Self(res)))

\* variant: the length of the rows wins over res.total
CoalesceCount_LengthFirst(res) == Coalesce(Length(CoalesceResult(res)), PropTotal(res))

\* const count = res.total ?? result.length
CoalesceCount(res) == Coalesce(PropTotal(res), Length(CoalesceResult(res)))

\* Array.isArray(result) ? result : []
ArrayOrEmpty(v) == IF IsArray(v) THEN v ELSE List(<<>>)

\* What the try block of a fetcher stores for a response body `res`:
\* threw = a property read on null raised a TypeError (the catch block runs).
Normalize(t, res) ==
    CASE t \in {"SessionsQ", "AccountsQ", "UsersQ", "UsersAdv"} ->
            [threw |-> res.t = "null",
             rows |-> ArrayOrEmpty(CoalesceResult(res)),
             total |-> CoalesceCount(res)]
      [] t = "AccountsAdv" ->
            [threw |-> res.t = "null",
             rows |-> ArrayOrEmpty(CoalesceResult(res)),
             total |-> Num(0)]
      [] t = "SessionsAdv" ->
            \* setSessions(res?.data ?? [])
            [threw |-> FALSE,
             rows |-> Coalesce(PropData(res), List(<<>>)),
             total |-> Num(0)]
      [] t = "AccountsBasic" ->
            \* setAccounts(res.data)
            [threw |-> res.t = "null",
             rows |-> PropData(res),
             total |-> Num(0)]
      [] t = "UsersBasic" ->
            \* setUsers(data || [])
            [threw |-> res.t = "null",
             rows |-> IF Truthy(CoalesceResult(res)) THEN CoalesceResult(res)
                      ELSE List(<<>>),
             total |-> Num(0)]

\* the catch block: which components reset the rows, which leave them
CatchResetsRows(t) == t \notin {"AccountsBasic", "UsersBasic"}

\* variant: the catch block stores what it caught
RowsAfterCatch_Caught(t, rows) == IF CatchResetsRows(t) THEN Undef ELSE rows

\* the rows after the catch block ran: setData([]) or no call at all
RowsAfterCatch(t, rows) == IF CatchResetsRows(t) THEN List(<<>>) ELSE rows

(***************************************************************************)
(* Strings and the query encoder                                           *)
(***************************************************************************)
PageSize == 10

\* encodeURIComponent, lexeme by lexeme: the reserved characters the model
\* uses are percent-encoded, letters, digits, "-" and "_" pass through
EncodeLexeme(c) ==
    CASE c = "&" -> "%26"
      [] c = "=" -> "%3D"
      [] c = "%" -> "%25"
      [] c = "," -> "%2C"
      [] c = ":" -> "%3A"
      [] OTHER -> c

encodeURIComponent(s) == [i \in 1..Len(s) |-> EncodeLexeme(s[i])]

\* Array.prototype.join
RECURSIVE Join(_, _)
Join(parts, sep) ==
    IF parts = <<>> THEN <<>>
    ELSE IF Len(parts) = 1 THEN parts[1]
    ELSE parts[1] \o sep \o Join(Tail(parts), sep)

\* variant: the prefix is put on the ascending entries
SortToken_Inverted(s) == IF s.desc THEN <<s.id>> ELSE <<"-", s.id>>

\* (s) => (s.desc ? `-${s.id}` : `${s.id}`)
SortToken(s) == IF s.desc THEN <<"-", s.id>> ELSE <<s.id>>

\* the separator buildOrderBy joins with
OrderDelim(t) ==
    IF t \in {"AccountsBasic", "UsersBasic"} THEN <<"&", "order_by", "=">> ELSE <<",">>

buildOrderBy(t, sortingState) ==
    Join([i \in 1..Len(sortingState) |-> SortToken(sortingState[i])], OrderDelim(t))

\* String(v) for the values a filter can hold
RECURSIVE JSString(_)
JSString(v) ==
    CASE v.t = "str" -> v.l
      [] v.t = "num" -> <<ToString(v.n)>>
      [] v.t = "undef" -> <<"undefined">>
      [] v.t = "null" -> <<"null">>
      [] v.t = "list" ->
            Join([i \in 1..Len(v.l) |->
                    IF v.l[i].t \in {"undef", "null"} THEN <<>> ELSE JSString(v.l[i])],
                 <<",">>)
      [] OTHER -> <<"[object Object]">>

\* arr[i] (0-based in the source, 1-based here)
Elem(v, i) == IF v.t = "list" /\ i <= Len(v.l) THEN v.l[i] ELSE Undef

\* Number(v) is NaN
IsNaNNumber(v) ==
    CASE v.t = "num" -> FALSE
      [] v.t = "str" -> ~(Len(v.l) = 1 /\ v.l[1] \in {ToString(k) : k \in 0..9})
      [] v.t = "null" -> FALSE
      [] OTHER -> TRUE

\* new Date(Number(v)).toISOString() for a valid time value
ISODate(v) ==
    <<"1970-01-01T00", ":", "00", ":", "00.00">> \o
        (IF v.t = "num" THEN <<ToString(v.n)>> ELSE IF v.t = "str" THEN v.l ELSE <<"0">>)
        \o <<"Z">>

\* the own keys of each table's variantMap literal
VariantKeys(t) ==
    CASE t = "SessionsAdv" -> {"id", "account_id", "ext_id", "msg_count", "status",
                               "created_at", "updated_at", "info_1", "info_2", "info_3"}
      [] t = "AccountsAdv" -> {"id", "number", "type", "status", "session_count",
                               "created_at", "updated_at"}
      [] OTHER -> {"id", "name", "login", "created_at"}

\* names every object literal inherits from Object.prototype: looking one
\* up gives a function (or the prototype), which is not nullish
ObjectPrototypeKeys ==
    {"constructor", "toString", "valueOf", "hasOwnProperty", "__proto__"}

\* variantMap[f.id] ?? "text"; "inherited" stands for a value that is no
\* variant name and matches no case of the switch
variantMap(t, id) ==
    IF id \in VariantKeys(t)
    THEN CASE t = "SessionsAdv" ->
                (CASE id \in {"id", "account_id", "msg_count"} -> "number"
                   [] id = "status" -> "select"
                   [] id \in {"created_at", "updated_at"} -> "date"
                   [] OTHER -> "text")
          [] t = "AccountsAdv" ->
                (CASE id \in {"id", "session_count"} -> "number"
                   [] id \in {"type", "status"} -> "select"
                   [] id \in {"created_at", "updated_at"} -> "date"
                   [] OTHER -> "text")
          [] OTHER ->
                (CASE id = "id" -> "number"
                   [] id = "created_at" -> "date"
                   [] OTHER -> "text")
    ELSE IF id \in ObjectPrototypeKeys THEN "inherited" ELSE "text"

\* the switch cases each table's buildFilterQuery has
VariantCases(t) ==
    CASE t = "SessionsAdv" -> {"text", "number", "range", "select", "multiSelect",
                               "boolean", "date", "dateRange"}
      [] t = "AccountsAdv" -> {"text", "number", "select", "date", "dateRange"}
      [] OTHER -> {"text", "number", "date", "dateRange"}

\* variant: the parameter is named after the field alone
Param_Unsuffixed(id, suffix, value) ==
    <<"&">> \o encodeURIComponent(<<id>>) \o <<"=">> \o encodeURIComponent(value)

\* add(suffix, value)
Param(id, suffix, value) ==
    <<"&">> \o encodeURIComponent(<<id>>) \o <<"__", suffix, "=">> \o encodeURIComponent(value)

Wrap(v) == <<"%">> \o v \o <<"%">>

\* variant: only isEmpty is skipped
IsNoOp_OnlyEmpty(op) == op = "isEmpty"

\* if (op === "isEmpty" || op === "isNotEmpty") continue
IsNoOp(op) == op \in {"isEmpty", "isNotEmpty"}

\* case "text" of the switch
TextCase(id, op, val) ==
    CASE op = "iLike" -> Param(id, "ilike", Wrap(JSString(val)))
      [] op = "like" -> Param(id, "like", Wrap(JSString(val)))
      [] op = "eq" -> Param(id, "eq", JSString(val))
      [] op = "ne" -> Param(id, "ne", JSString(val))
      [] OTHER -> Param(id, "ilike", Wrap(JSString(val)))

\* case "range" of the switch
RangeCase(id, val) ==
    LET arr == IF IsArray(val) THEN val ELSE List(<<>>)
    IN  (IF Truthy(Elem(arr, 1)) THEN Param(id, "gte", JSString(Elem(arr, 1))) ELSE <<>>)
        \o (IF Truthy(Elem(arr, 2)) THEN Param(id, "lte", JSString(Elem(arr, 2))) ELSE <<>>)

\* the parameters one filter contributes
FilterParams(t, f) ==
    LET id == f.id
        op == f.operator
        val == f.value
        variant == variantMap(t, id)
        ms == IF IsArray(val) THEN Elem(val, 1) ELSE val
        arr == IF IsArray(val) THEN val ELSE List(<<>>)
    IN  IF IsNoOp(op) \/ variant \notin VariantCases(t) THEN <<>>
        ELSE CASE variant = "text" -> TextCase(id, op, val)
               [] variant = "number" ->
                    (CASE op \in {"eq", ""} -> Param(id, "eq", JSString(val))
                       [] op \in {"ne", "gt", "gte", "lt", "lte"} -> Param(id, op, JSString(val))
                       [] OTHER -> <<>>)
               [] variant = "range" -> RangeCase(id, val)
               [] variant = "select" -> Param(id, "eq", JSString(val))
               [] variant = "multiSelect" ->
                    Param(id, "in", IF IsArray(val) THEN JSString(val) ELSE JSString(val))
               [] variant = "boolean" -> Param(id, "eq", JSString(val))
               [] variant = "date" ->
                    (IF Truthy(ms) THEN Param(id, "eq", ISODate(ms)) ELSE <<>>)
               [] variant = "dateRange" ->
                    (IF Truthy(Elem(arr, 1)) THEN Param(id, "gte", ISODate(Elem(arr, 1))) ELSE <<>>)
                    \o (IF Truthy(Elem(arr, 2)) THEN Param(id, "lte", ISODate(Elem(arr, 2))) ELSE <<>>)

\* toISOString raises a RangeError on an invalid date
FilterThrows(t, f) ==
    LET val == f.value
        variant == variantMap(t, f.id)
        ms == IF IsArray(val) THEN Elem(val, 1) ELSE val
        arr == IF IsArray(val) THEN val ELSE List(<<>>)
    IN  /\ ~IsNoOp(f.operator)
        /\ variant \in VariantCases(t)
        /\ \/ variant = "date" /\ Truthy(ms) /\ IsNaNNumber(ms)
           \/ variant = "dateRange" /\ \E i \in 1..2 : Truthy(Elem(arr, i)) /\ IsNaNNumber(Elem(arr, i))

buildFilterQuery(t, filters) ==
    Join([i \in 1..Len(filters) |-> FilterParams(t, filters[i])], <<>>)

buildFilterQueryThrows(t, filters) ==
    \E i \in 1..Len(filters) : FilterThrows(t, filters[i])

\* columnFiltersState.map((f) => (f.value ? `&${id}__ilike=${%value%}` : "")).join("")
filtersBasic(cf) ==
    Join([i \in 1..Len(cf) |->
            IF cf[i].value # <<>>
            THEN <<"&">> \o encodeURIComponent(<<cf[i].id>>) \o <<"__", "ilike", "=">>
                 \o encodeURIComponent(Wrap(cf[i].value))
            ELSE <<>>],
         <<>>)

\* tables whose fetcher sends the search text as a raw `&q=` parameter
UsesQ(t) == t \in {"SessionsQ", "AccountsQ", "UsersQ"}

\* tables whose fetcher sends basic and advanced filters
UsesFilters(t) == t \in {"SessionsAdv", "AccountsAdv", "UsersAdv"}

\* The query string a fetcher puts after "?". `adv` is the advFilters value
\* the fetcher's closure holds.
BuildQuery(t, page, size, sortingState, filter, cf, adv) ==
    <<"skip", "=", ToString(page * size), "&", "limit", "=", ToString(size)>>
    \o (IF Len(sortingState) > 0
        THEN <<"&", "order_by", "=">> \o buildOrderBy(t, sortingState) ELSE <<>>)
    \o (IF UsesQ(t) /\ filter # <<>> THEN <<"&", "q", "=">> \o filter ELSE <<>>)
    \o (IF UsesFilters(t) THEN filtersBasic(cf) \o buildFilterQuery(t, adv) ELSE <<>>)

(***************************************************************************)
(* Reading a query string back, the way a server splits it                 *)
(***************************************************************************)
\* split s at each occurrence of the lexeme sep
RECURSIVE Split(_, _)
Split(s, sep) ==
    IF \A i \in 1..Len(s) : s[i] # sep THEN <<s>>
    ELSE LET k == CHOOSE i \in 1..Len(s) : s[i] = sep /\ \A j \in 1..(i - 1) : s[j] # sep
         IN  <<SubSeq(s, 1, k - 1)>> \o Split(SubSeq(s, k + 1, Len(s)), sep)

\* one `key=value` pair; a pair without "=" has an empty value
KeyOf(p) ==
    IF \A i \in 1..Len(p) : p[i] # "=" THEN p
    ELSE SubSeq(p, 1, (CHOOSE i \in 1..Len(p) : p[i] = "=" /\ \A j \in 1..(i - 1) : p[j] # "=") - 1)
ValueOf(p) ==
    IF \A i \in 1..Len(p) : p[i] # "=" THEN <<>>
    ELSE SubSeq(p, (CHOOSE i \in 1..Len(p) : p[i] = "=" /\ \A j \in 1..(i - 1) : p[j] # "=") + 1, Len(p))

\* the pairs of a query string, in order
Pairs(q) == Split(q, "&")

\* the values of every pair whose key is `key`, in order
ValuesOf(q, key) ==
    SelectSeq([i \in 1..Len(Pairs(q)) |-> Pairs(q)[i]], LAMBDA p : KeyOf(p) = key)

(***************************************************************************)
(* The session and the Kendo grid while a React table is looked at         *)
(***************************************************************************)
\* no apiFetch call made yet
NoCall ==
    [phase |-> "none", caller |-> "", impl |-> "", stored |-> Null,
     authorization |-> Undef,
     status |-> 0, body |-> "", outcome |-> "", error |-> <<>>]

\* no test-token call made yet
NoTest == [phase |-> "none", bearer |-> Null]

\* the login page as it mounts: no attempt made, no error, not loading
NoLogin == [phase |-> "idle", loading |-> FALSE, error |-> Null, stored |-> FALSE]

\* a dashboard page just loaded, nothing stored
SessionIdle ==
    /\ client = "react"
    /\ loginForm = NoLogin
    /\ token = Null
    /\ isAuth = "null"
    /\ location = "/"
    /\ testToken = NoTest
    /\ call = NoCall

\* no Kendo grid on the page
GridIdle ==
    /\ gridState = Null
    /\ gridParams = <<>>

(***************************************************************************)
(* The table state machine                                                 *)
(***************************************************************************)
\* components that render "Loading ..." instead of the table while loading
Gate(t) == t \in {"SessionsAdv", "AccountsAdv", "AccountsBasic", "UsersAdv"}

\* components that keep { pageIndex, pageSize } and page on the server
ServerPaged(t) == t \in {"SessionsQ", "AccountsQ", "UsersQ", "UsersAdv"}

\* components with a create/edit form and the handlers around it
HasForm(t) == t \in {"UsersQ", "UsersAdv"}

\* components with a handleDelete
HasDelete(t) == t \in {"UsersQ", "UsersAdv", "UsersBasic"}

\* components that mount two effects which both call the fetcher
TwoEffects(t) == t \in {"SessionsAdv", "AccountsAdv"}

\* the table (not the form, not the loading placeholder) is on screen
UIVisible == view = "list" /\ (Gate(tbl) => ~loading)

\* what the list endpoint answers to request k: one page and the total
Envelope(k) == ObjBody(List(<<k>>), Undef, Undef, Num(PageSize + k))

SortChoices ==
    {<<>>,
     <<[id |-> "id", desc |-> FALSE]>>,
     <<[id |-> "created_at", desc |-> TRUE], [id |-> "id", desc |-> FALSE]>>}

ColumnFilterChoices ==
    {<<>>, <<[id |-> "name", value |-> <<>>]>>, <<[id |-> "name", value |-> <<"a">>]>>}

AdvFilterChoices ==
    {<<>>, <<[id |-> "id", operator |-> "eq", value |-> Str(<<"1">>)]>>,
     <<[id |-> "name", operator |-> "eq", value |-> Str(<<"b">>)]>>}

SearchChoices == {<<>>, <<"a">>}

\* the limit a fetcher sends
SizeOf(t, size) == IF ServerPaged(t) THEN size ELSE PageSize

\* n calls of the fetcher with the same arguments: setLoading(true), then
\* either the query is built and the GETs are sent, or building the filter
\* query throws and the catch/finally blocks run at once
Fetch(n, page, sortingState, filter, cf, adv) ==
    /\ nextId + n - 1 <= Len(requests)
    /\ IF UsesFilters(tbl) /\ buildFilterQueryThrows(tbl, adv)
       THEN /\ data' = List(<<>>)
            /\ total' = IF HasTotal(tbl) THEN Num(0) ELSE total
            /\ loading' = FALSE
            /\ UNCHANGED <<requests, nextId, lastQuery>>
       ELSE /\ requests' = [k \in DOMAIN requests |->
                              IF k \in nextId..(nextId + n - 1) THEN "pending"
                              ELSE requests[k]]
            /\ nextId' = nextId + n
            /\ lastQuery' = BuildQuery(tbl, page, SizeOf(tbl, pageSize), sortingState,
                                       filter, cf, adv)
            /\ loading' = TRUE
            /\ UNCHANGED <<data, total>>

\* the useEffect that refetches when one of its dependencies changed
EffectFetch(n, page, sortingState, filter, cf, adv) ==
    IF TwoEffects(tbl)
    THEN Fetch(n, 0, sortingState, filter, cf, adv)
    ELSE Fetch(1, page, sortingState, filter, IF tbl = "UsersAdv" THEN cf ELSE <<>>, adv)

Init ==
    /\ SessionIdle
    /\ GridIdle
    /\ tbl \in Tables
    /\ sorting = <<>>
    /\ columnFilters = <<>>
    /\ advFilters \in (IF UsesFilters(tbl) THEN AdvFilterChoices ELSE {<<>>})
    /\ capturedAdv = advFilters
    /\ globalFilter = <<>>
    /\ pageIndex = 0
    /\ pageSize = PageSize
    /\ data = List(<<>>)
    /\ total = Num(0)
    /\ view = "list"
    /\ currentUser = 0
    /\ pendingDeletes = {}
    /\ response = NoBody
    \* the mount effects have run
    /\ loading = TRUE
    /\ requests = [k \in 1..MaxReq |->
                     IF k <= (IF TwoEffects(tbl) THEN 2 ELSE 1) THEN "pending" ELSE "none"]
    /\ nextId = IF TwoEffects(tbl) THEN 3 ELSE 2
    /\ lastQuery = BuildQuery(tbl, 0, PageSize, <<>>, <<>>, <<>>, advFilters)

\* onSortingChange: setSorting
SetSorting(s) ==
    /\ UIVisible
    /\ s # sorting
    /\ sorting' = s
    /\ pageIndex' = IF TwoEffects(tbl) THEN 0 ELSE pageIndex
    /\ EffectFetch(1, pageIndex, s, globalFilter, columnFilters, capturedAdv)
    /\ UNCHANGED <<sessionVars, gridVars>>
    /\ UNCHANGED <<tbl, columnFilters, advFilters, capturedAdv, globalFilter, pageSize,
                   view, currentUser, pendingDeletes, response>>

\* onColumnFiltersChange: setColumnFilters (SimpleFilterButton)
SetColumnFilters(cf) ==
    /\ UIVisible
    /\ UsesFilters(tbl)
    /\ cf # columnFilters
    /\ columnFilters' = cf
    /\ pageIndex' = IF TwoEffects(tbl) THEN 0 ELSE pageIndex
    /\ EffectFetch(1, pageIndex, sorting, globalFilter, cf, capturedAdv)
    /\ UNCHANGED <<sessionVars, gridVars>>
    /\ UNCHANGED <<tbl, sorting, advFilters, capturedAdv, globalFilter, pageSize,
                   view, currentUser, pendingDeletes, response>>

\* the search box: onChange={(e) => setGlobalFilter(e.target.value)}
SetGlobalFilter(g) ==
    /\ UIVisible
    /\ g # globalFilter
    /\ globalFilter' = g
    /\ IF tbl \in {"AccountsBasic", "UsersBasic"}
       THEN UNCHANGED <<pageIndex, requests, nextId, lastQuery, loading, data, total>>
       ELSE /\ pageIndex' = IF TwoEffects(tbl) THEN 0 ELSE pageIndex
            /\ EffectFetch(1, pageIndex, sorting, g, columnFilters, capturedAdv)
    /\ UNCHANGED <<sessionVars, gridVars>>
    /\ UNCHANGED <<tbl, sorting, columnFilters, advFilters, capturedAdv, pageSize,
                   view, currentUser, pendingDeletes, response>>

\* onPaginationChange: setPagination / DataTablePagination onPageChange
SetPage(p) ==
    /\ UIVisible
    /\ p # pageIndex
    /\ \/ ServerPaged(tbl) /\ (p = 0 \/ (total.t = "num" /\ p * pageSize < total.n))
       \/ TwoEffects(tbl)
    /\ pageIndex' = p
    /\ Fetch(1, p, sorting, globalFilter,
             IF UsesFilters(tbl) THEN columnFilters ELSE <<>>, capturedAdv)
    /\ UNCHANGED <<sessionVars, gridVars>>
    /\ UNCHANGED <<tbl, sorting, columnFilters, advFilters, capturedAdv, globalFilter,
                   pageSize, view, currentUser, pendingDeletes, response>>

\* the Refresh button
Refresh ==
    /\ UIVisible
    /\ Fetch(1, pageIndex, sorting, globalFilter,
             IF UsesFilters(tbl) THEN columnFilters ELSE <<>>, capturedAdv)
    /\ UNCHANGED <<sessionVars, gridVars>>
    /\ UNCHANGED <<tbl, sorting, columnFilters, advFilters, capturedAdv, globalFilter,
                   pageIndex, pageSize, view, currentUser, pendingDeletes, response>>

\* the URL parameter "filters" changes
SetAdvFilters(a) ==
    /\ UsesFilters(tbl)
    /\ a # advFilters
    /\ advFilters' = a
    /\ IF tbl = "SessionsAdv"
       THEN \* loadData is memoized with [] and no effect depends on advFilters
            UNCHANGED <<capturedAdv, pageIndex, requests, nextId, lastQuery, loading,
                        data, total>>
       ELSE /\ capturedAdv' = a
            /\ pageIndex' = IF TwoEffects(tbl) THEN 0 ELSE pageIndex
            /\ EffectFetch(2, pageIndex, sorting, globalFilter, columnFilters, a)
    /\ UNCHANGED <<sessionVars, gridVars>>
    /\ UNCHANGED <<tbl, sorting, columnFilters, globalFilter, pageSize, view,
                   currentUser, pendingDeletes, response>>

\* handleDelete up to its await: the DELETE is sent, the continuation keeps
\* the arguments of the render it was created in
HandleDelete ==
    /\ UIVisible
    /\ HasDelete(tbl)
    /\ IsArray(data) /\ data.l # <<>>
    /\ Cardinality(pendingDeletes) < MaxDeletes
    /\ pendingDeletes' = pendingDeletes \cup
            {[page |-> pageIndex, sort |-> sorting, filter |-> globalFilter,
              adv |-> capturedAdv]}
    /\ UNCHANGED <<sessionVars, gridVars>>
    /\ UNCHANGED <<tbl, sorting, columnFilters, advFilters, capturedAdv, globalFilter,
                   pageIndex, pageSize, data, total, loading, view, currentUser,
                   requests, nextId, lastQuery, response>>

\* the DELETE resolved: fetchUsers(pageIndex, pageSize, sorting, globalFilter)
DeleteDone(d) ==
    /\ d \in pendingDeletes
    /\ pendingDeletes' = pendingDeletes \ {d}
    /\ Fetch(1, d.page, d.sort, d.filter, <<>>, d.adv)
    /\ UNCHANGED <<sessionVars, gridVars>>
    /\ UNCHANGED <<tbl, sorting, columnFilters, advFilters, capturedAdv, globalFilter,
                   pageIndex, pageSize, view, currentUser, response>>

\* the DELETE failed: window.alert, no refetch
DeleteFailed(d) ==
    /\ d \in pendingDeletes
    /\ pendingDeletes' = pendingDeletes \ {d}
    /\ UNCHANGED <<sessionVars, gridVars>>
    /\ UNCHANGED <<tbl, sorting, columnFilters, advFilters, capturedAdv, globalFilter,
                   pageIndex, pageSize, data, total, loading, view, currentUser,
                   requests, nextId, lastQuery, response>>

handleAdd ==
    /\ UIVisible
    /\ HasForm(tbl)
    /\ currentUser' = 0
    /\ view' = "create"
    /\ UNCHANGED <<sessionVars, gridVars>>
    /\ UNCHANGED <<tbl, sorting, columnFilters, advFilters, capturedAdv, globalFilter,
                   pageIndex, pageSize, data, total, loading, requests, nextId,
                   lastQuery, pendingDeletes, response>>

handleEdit(u) ==
    /\ UIVisible
    /\ HasForm(tbl)
    /\ IsArray(data) /\ \E i \in 1..Len(data.l) : data.l[i] = u
    /\ currentUser' = u
    /\ view' = "edit"
    /\ UNCHANGED <<sessionVars, gridVars>>
    /\ UNCHANGED <<tbl, sorting, columnFilters, advFilters, capturedAdv, globalFilter,
                   pageIndex, pageSize, data, total, loading, requests, nextId,
                   lastQuery, pendingDeletes, response>>

\* UserForm onSuccess
handleSuccess ==
    /\ HasForm(tbl)
    /\ view \in {"create", "edit"}
    /\ view' = "list"
    /\ currentUser' = 0
    /\ Fetch(1, pageIndex, sorting, globalFilter, <<>>, capturedAdv)
    /\ UNCHANGED <<sessionVars, gridVars>>
    /\ UNCHANGED <<tbl, sorting, columnFilters, advFilters, capturedAdv, globalFilter,
                   pageIndex, pageSize, pendingDeletes, response>>

\* UserForm onCancel
handleCancel ==
    /\ HasForm(tbl)
    /\ view \in {"create", "edit"}
    /\ view' = "list"
    /\ currentUser' = 0
    /\ UNCHANGED <<sessionVars, gridVars>>
    /\ UNCHANGED <<tbl, sorting, columnFilters, advFilters, capturedAdv, globalFilter,
                   pageIndex, pageSize, data, total, loading, requests, nextId,
                   lastQuery, pendingDeletes, response>>

\* the await of request k resumes with `body`
Deliver(k, body) ==
    /\ requests[k] = "pending"
    /\ requests' = [requests EXCEPT ![k] = "ok"]
    /\ response' = body
    /\ LET r == Normalize(tbl, body)
       IN  IF r.threw
           THEN /\ data' = RowsAfterCatch(tbl, data)
                /\ total' = IF HasTotal(tbl) THEN Num(0) ELSE total
           ELSE /\ data' = r.rows
                /\ total' = IF HasTotal(tbl) THEN r.total ELSE total
    /\ loading' = FALSE
    /\ UNCHANGED <<sessionVars, gridVars>>
    /\ UNCHANGED <<tbl, sorting, columnFilters, advFilters, capturedAdv, globalFilter,
                   pageIndex, pageSize, view, currentUser, nextId, lastQuery,
                   pendingDeletes>>

\* the list endpoint answers request k
Respond(k) == Deliver(k, Envelope(k))

\* apiFetch of request k throws (HTTP error status or transport failure)
RespondError(k) ==
    /\ requests[k] = "pending"
    /\ requests' = [requests EXCEPT ![k] = "fail"]
    /\ data' = RowsAfterCatch(tbl, data)
    /\ total' = IF HasTotal(tbl) THEN Num(0) ELSE total
    /\ loading' = FALSE
    /\ response' = NoBody
    /\ UNCHANGED <<sessionVars, gridVars>>
    /\ UNCHANGED <<tbl, sorting, columnFilters, advFilters, capturedAdv, globalFilter,
                   pageIndex, pageSize, view, currentUser, nextId, lastQuery,
                   pendingDeletes>>

Next ==
    \/ \E s \in SortChoices : SetSorting(s)
    \/ \E cf \in ColumnFilterChoices : SetColumnFilters(cf)
    \/ \E g \in SearchChoices : SetGlobalFilter(g)
    \/ \E p \in 0..MaxPage : SetPage(p)
    \/ Refresh
    \/ \E a \in AdvFilterChoices : SetAdvFilters(a)
    \/ HandleDelete
    \/ \E d \in pendingDeletes : DeleteDone(d)
    \/ \E d \in pendingDeletes : DeleteFailed(d)
    \/ handleAdd
    \/ \E u \in 1..MaxReq : handleEdit(u)
    \/ handleSuccess
    \/ handleCancel
    \/ \E k \in DOMAIN requests : Respond(k)
    \/ \E k \in DOMAIN requests : RespondError(k)

Spec == Init /\ [][Next]_vars

(***************************************************************************)
(* Response normalization on its own: the mounted table receives any body  *)
(***************************************************************************)
RowLists == {[i \in 1..n |-> i] : n \in 0..MaxRows}

FieldValues == {Undef, Null, Str(<<"x">>), Obj} \cup {List(s) : s \in RowLists}

TotalValues == {Undef, Null, Str(<<"5">>)} \cup {Num(n) : n \in 0..MaxTotal}

Responses ==
    {ListBody(s) : s \in RowLists} \cup {NullBody}
    \cup {ObjBody(d, i, r, tot) : d \in FieldValues, i \in FieldValues,
                                  r \in FieldValues, tot \in TotalValues}

\* the most recent list GET resolves with an arbitrary body
RespondAny(body) == Deliver(nextId - 1, body)

LatestPending == requests[nextId - 1] = "pending"

NextNorm ==
    \/ LatestPending /\ \E body \in Responses : RespondAny(body)
    \/ \E k \in DOMAIN requests : Respond(k)
    \/ \E k \in DOMAIN requests : RespondError(k)

SpecNorm == Init /\ [][NextNorm]_vars

\* the tables whose fetcher stores Array.isArray(result) ? result : []
ArrayGuarded(t) == t \in {"SessionsQ", "AccountsQ", "UsersQ", "UsersAdv", "AccountsAdv"}

\* C3: a response that is itself a list gives rows equal to the list and,
\* where the table keeps a total, total equal to its length, in every table.
C3_ListResponse ==
    response.t = "list" =>
        /\ data = List(response.l)
        /\ HasTotal(tbl) => total = Num(Len(response.l))

\* C4: a response object whose data is a list and whose total is a number
\* gives rows = data and (where the table keeps a total) total = total,
\* whatever the length of data.
C4_Envelope ==
    (response.t = "object" /\ IsArray(response.data) /\ response.total.t = "num") =>
        /\ data = response.data
        /\ HasTotal(tbl) => total = response.total

C4_Witness ==
    /\ response.t = "object"
    /\ response.data = List(<<1>>)
    /\ response.total = Num(MaxTotal)
    /\ HasTotal(tbl)
    /\ data = List(<<1>>)
    /\ total = Num(MaxTotal)

\* C5: a response object with no list under data, items or results and no
\* total gives rows = [] and total = 0.
C5_FailSoft ==
    (/\ response.t = "object"
     /\ ~IsArray(response.data) /\ ~IsArray(response.items) /\ ~IsArray(response.results)
     /\ response.total.t = "undef") =>
        /\ data = List(<<>>)
        /\ HasTotal(tbl) => total = Num(0)

\* C6: when data is present but not a list and items is a list, rows = items.
C6_ItemsAfterNonListData ==
    (/\ response.t = "object"
     /\ response.data.t # "undef" /\ ~IsArray(response.data)
     /\ IsArray(response.items)) =>
        data = response.items

C8_Total ==
    (response.t \in {"list", "object"} /\ HasTotal(tbl)) =>
        total = IF PropTotal(response).t = "num" THEN PropTotal(response)
                ELSE Length(data)

(***************************************************************************)
(* The query encoder on its own: a mounted table in any UI state, whose    *)
(* last list GET failed, is refreshed                                      *)
(***************************************************************************)
SortColumns == {"id", "created_at"}

SortEntries == {[id |-> c, desc |-> b] : c \in SortColumns, b \in BOOLEAN}

\* sort states: no column twice
SortStates ==
    UNION {{s \in [1..n -> SortEntries] :
                \A i, j \in 1..n : i # j => s[i].id # s[j].id} : n \in 0..MaxSortLen}

ColumnFilterStates ==
    ColumnFilterChoices \cup {<<[id |-> "name", value |-> <<"a", "&", "b">>]>>}

AdvFilterStates ==
    AdvFilterChoices \cup
    {<<[id |-> "name", operator |-> "iLike", value |-> Str(<<"a">>)]>>,
     <<[id |-> "id", operator |-> "gte", value |-> Num(1)],
       [id |-> "name", operator |-> "isEmpty", value |-> Str(<<>>)]>>}

SearchStates == SearchChoices \cup {<<"a", "&", "skip", "=", "7">>}

PageSizes == {PageSize, 2 * PageSize}

InitQuery ==
    /\ SessionIdle
    /\ GridIdle
    /\ tbl \in Tables
    /\ sorting \in SortStates
    /\ columnFilters \in (IF UsesFilters(tbl) THEN ColumnFilterStates ELSE {<<>>})
    /\ advFilters \in (IF UsesFilters(tbl) THEN AdvFilterStates ELSE {<<>>})
    /\ capturedAdv = advFilters
    /\ globalFilter \in SearchStates
    /\ pageIndex \in (IF TwoEffects(tbl) \/ ServerPaged(tbl) THEN 0..MaxPage ELSE {0})
    /\ pageSize \in (IF ServerPaged(tbl) THEN PageSizes ELSE {PageSize})
    /\ data = List(<<>>)
    /\ total = Num(0)
    /\ view = "list"
    /\ currentUser = 0
    /\ pendingDeletes = {}
    /\ response = NoBody
    /\ loading = FALSE
    /\ requests = [k \in 1..MaxReq |-> IF k = 1 THEN "fail" ELSE "none"]
    /\ nextId = 2
    /\ lastQuery = BuildQuery(tbl, pageIndex, SizeOf(tbl, pageSize), sorting, globalFilter,
                              columnFilters, capturedAdv)

NextQuery ==
    \/ Refresh
    \/ \E k \in DOMAIN requests : Respond(k)
    \/ \E k \in DOMAIN requests : RespondError(k)

SpecQuery == InitQuery /\ [][NextQuery]_vars

\* the sort tokens a query string carries: the values of its order_by
\* parameters, each split at ","
RECURSIVE Flatten(_)
Flatten(ss) == IF ss = <<>> THEN <<>> ELSE ss[1] \o Flatten(Tail(ss))

OrderTokens(q) ==
    LET vs == ValuesOf(q, <<"order_by">>)
    IN  Flatten([i \in 1..Len(vs) |-> Split(ValueOf(vs[i]), ",")])

\* C9: the query string of a list GET has exactly one skip= token, with
\* value pageIndex * pageSize, and exactly one limit= token, with value
\* pageSize, whatever the sort and filter state.
C9_SkipLimit ==
    LET skips == ValuesOf(lastQuery, <<"skip">>)
        limits == ValuesOf(lastQuery, <<"limit">>)
    IN  /\ Len(skips) = 1
        /\ ValueOf(skips[1]) = <<ToString(pageIndex * pageSize)>>
        /\ Len(limits) = 1
        /\ ValueOf(limits[1]) = <<ToString(pageSize)>>

\* C10: buildOrderBy emits one token per sort entry, in the order of the
\* entries, `-id` for a descending entry and `id` for an ascending one.
C10_OrderBy ==
    LET toks == OrderTokens(<<"order_by", "=">> \o buildOrderBy(tbl, sorting))
    IN  sorting # <<>> =>
            /\ Len(toks) = Len(sorting)
            /\ \A i \in 1..Len(sorting) :
                    toks[i] = IF sorting[i].desc THEN <<"-", sorting[i].id>>
                              ELSE <<sorting[i].id>>

C10_Witness ==
    /\ Len(sorting) = 2
    /\ sorting[1].desc /\ ~sorting[2].desc
    /\ tbl = "AccountsBasic"
    /\ requests[2] = "pending"
    /\ OrderTokens(lastQuery) = << <<"-", sorting[1].id>>, <<sorting[2].id>> >>

(***************************************************************************)
(* Claims about the refetch loop                                           *)
(***************************************************************************)
\* C1: once every list GET issued so far has been answered, the rows and
\* the total on screen are those of the answer to the GET issued last,
\* whatever the order the answers arrived in.
C1_LatestWins ==
    (nextId > 2 /\ \A k \in 1..(nextId - 1) : requests[k] = "ok") =>
        /\ data = Envelope(nextId - 1).data
        /\ HasTotal(tbl) => total = Envelope(nextId - 1).total

\* the text `text` is the value of some parameter of q, raw, encoded or
\* wrapped in % and encoded
CarriesText(q, text) ==
    \E i \in 1..Len(Pairs(q)) :
        ValueOf(Pairs(q)[i]) \in {text, encodeURIComponent(text),
                                  encodeURIComponent(Wrap(text))}

\* q ends with the string tail
EndsWith(q, tail) ==
    Len(tail) <= Len(q) /\ SubSeq(q, Len(q) - Len(tail) + 1, Len(q)) = tail

\* C2: the query string of the most recent list GET is built from the
\* current page, sort state, column filters, URL filters and search text
\* (the search text in the tables whose fetcher is handed it).
C2_QueryCurrent ==
    /\ ValuesOf(lastQuery, <<"skip">>) # <<>>
    /\ ValueOf(ValuesOf(lastQuery, <<"skip">>)[1]) = <<ToString(pageIndex * pageSize)>>
    /\ OrderTokens(lastQuery) =
            [i \in 1..Len(sorting) |->
                IF sorting[i].desc THEN <<"-", sorting[i].id>> ELSE <<sorting[i].id>>]
    /\ \A i \in 1..Len(columnFilters) :
            columnFilters[i].value # <<>> =>
                \E j \in 1..Len(Pairs(lastQuery)) :
                    /\ KeyOf(Pairs(lastQuery)[j]) = <<columnFilters[i].id, "__", "ilike">>
                    /\ ValueOf(Pairs(lastQuery)[j]) =
                            encodeURIComponent(Wrap(columnFilters[i].value))
    /\ UsesFilters(tbl) => EndsWith(lastQuery, buildFilterQuery(tbl, advFilters))
    /\ (globalFilter # <<>> /\ tbl \notin {"AccountsBasic", "UsersBasic"}) =>
            CarriesText(lastQuery, globalFilter)

(***************************************************************************)
(* Claims about the sort and filter parameters of a list GET               *)
(***************************************************************************)
\* the sort tokens of a sort state joined with ","
CommaJoined(sortingState) ==
    Join([i \in 1..Len(sortingState) |->
            IF sortingState[i].desc THEN <<"-", sortingState[i].id>>
            ELSE <<sortingState[i].id>>],
         <<",">>)

\* C11: whenever the sort state is non-empty, the list GET carries exactly
\* one order_by parameter and its value is the comma-joined list of all
\* sort tokens, in every table and for sorts on more than one column.
C11_SingleOrderBy ==
    sorting # <<>> =>
        LET vs == ValuesOf(lastQuery, <<"order_by">>)
        IN  /\ Len(vs) = 1
            /\ ValueOf(vs[1]) = CommaJoined(sorting)

(***************************************************************************)
(* The filter encoder on its own: a table mounted with any list of URL     *)
(* filters, refreshed                                                      *)
(***************************************************************************)
FilterFields == {"id", "status", "name", "created_at", "constructor"}

FilterOperators == {"eq", "iLike", "gte", "isEmpty", "isNotEmpty"}

FilterValues ==
    {Str(<<"1">>), Str(<<"x">>), Undef, List(<<Str(<<"1">>), Str(<<"2">>)>>)}

Filters ==
    {[id |-> f, operator |-> o, value |-> v] :
        f \in FilterFields, o \in FilterOperators, v \in FilterValues}

\* the filters a second entry of the list is drawn from
SecondFilters ==
    {[id |-> "name", operator |-> "iLike", value |-> Str(<<"x">>)],
     [id |-> "status", operator |-> "eq", value |-> Str(<<"1">>)],
     [id |-> "id", operator |-> "isEmpty", value |-> Undef]}

FilterLists ==
    {<<f>> : f \in Filters} \cup {<<f, g>> : f \in Filters, g \in SecondFilters}

\* the table was mounted with the URL filters in place: its mount fetch
\* either failed, or never left because building the query threw
InitFilter ==
    /\ SessionIdle
    /\ GridIdle
    /\ tbl \in {t \in Tables : UsesFilters(t)}
    /\ sorting = <<>>
    /\ columnFilters = <<>>
    /\ advFilters \in FilterLists
    /\ capturedAdv = advFilters
    /\ globalFilter = <<>>
    /\ pageIndex = 0
    /\ pageSize = PageSize
    /\ data = List(<<>>)
    /\ total = Num(0)
    /\ view = "list"
    /\ currentUser = 0
    /\ pendingDeletes = {}
    /\ response = NoBody
    /\ loading = FALSE
    /\ IF buildFilterQueryThrows(tbl, advFilters)
       THEN /\ requests = [k \in 1..MaxReq |-> "none"]
            /\ nextId = 1
            /\ lastQuery = <<>>
       ELSE /\ requests = [k \in 1..MaxReq |-> IF k = 1 THEN "fail" ELSE "none"]
            /\ nextId = 2
            /\ lastQuery = BuildQuery(tbl, 0, PageSize, <<>>, <<>>, <<>>, advFilters)

SpecFilter == InitFilter /\ [][NextQuery]_vars

\* the filters of a list whose operator is neither isEmpty nor isNotEmpty
WithoutEmptiness(filters) ==
    SelectSeq(filters, LAMBDA f : f.operator \notin {"isEmpty", "isNotEmpty"})

\* C12: a filter whose operator is isEmpty or isNotEmpty contributes no
\* parameter, whatever its field, variant and value (the query string is
\* the one of the list without these filters), and encoding the same list
\* again gives the same string.
C12_EmptinessNoOp ==
    /\ [](nextId > 1 =>
            lastQuery = BuildQuery(tbl, 0, PageSize, <<>>, <<>>, <<>>,
                                   WithoutEmptiness(advFilters)))
    /\ [][nextId' > nextId => (nextId > 1 => lastQuery' = lastQuery)]_vars

C12_Witness ==
    /\ Len(advFilters) = 2
    /\ advFilters[1] = [id |-> "created_at", operator |-> "isNotEmpty", value |-> Str(<<"x">>)]
    /\ advFilters[2] = [id |-> "name", operator |-> "iLike", value |-> Str(<<"x">>)]
    /\ requests[2] = "pending"
    /\ lastQuery = <<"skip", "=", "0", "&", "limit", "=", "10",
                     "&", "name", "__", "ilike", "=", "%25", "x", "%25">>

\* how many parameters of the query string q are exactly the pair p
Occurrences(q, p) == Len(SelectSeq(Pairs(q), LAMBDA x : x = p))

StatusEqOne == [id |-> "status", operator |-> "eq", value |-> Str(<<"1">>)]

\* C13: with the single URL filter {status, eq, "1"} on a table where
\* status has the select variant, the query string of the list GET holds
\* the token status__eq=1 exactly once.
C13_StatusEq ==
    (/\ advFilters = <<StatusEqOne>>
     /\ variantMap(tbl, "status") = "select"
     /\ nextId > 1) =>
        Occurrences(lastQuery, <<"status", "__", "eq", "=", "1">>) = 1

C13_Witness ==
    /\ tbl = "SessionsAdv"
    /\ advFilters = <<StatusEqOne>>
    /\ requests[2] = "pending"
    /\ lastQuery = <<"skip", "=", "0", "&", "limit", "=", "10",
                     "&", "status", "__", "eq", "=", "1">>

(***************************************************************************)
(* The Kendo grid: parameterMap and kendoToFastapiQuery                    *)
(***************************************************************************)
MaxLeaves == 2

\* one node of a Kendo filter expression: a leaf { field, operator, value }
\* or a group { logic, filters }
Leaf(f, op, v) ==
    [isGroup |-> FALSE, field |-> f, operator |-> op, value |-> v, logic |-> "",
     filters |-> <<>>]
Group(lg, fs) ==
    [isGroup |-> TRUE, field |-> "", operator |-> "", value |-> Null, logic |-> lg,
     filters |-> fs]

\* const opMap = { eq: '', neq: '__neq', contains: '__ilike', ... }
opMap(operator) ==
    CASE operator = "eq" -> Str(<<>>)
      [] operator = "neq" -> Str(<<"__", "neq">>)
      [] operator = "contains" -> Str(<<"__", "ilike">>)
      [] operator = "doesnotcontain" -> Str(<<"__", "not_ilike">>)
      [] operator = "startswith" -> Str(<<"__", "istartswith">>)
      [] operator = "endswith" -> Str(<<"__", "iendswith">>)
      [] operator = "gt" -> Str(<<"__", "gt">>)
      [] operator = "gte" -> Str(<<"__", "ge">>)
      [] operator = "lt" -> Str(<<"__", "lt">>)
      [] operator = "lte" -> Str(<<"__", "le">>)
      [] operator = "in" -> Str(<<"__", "in">>)
      [] operator \in {"isnull", "isnotnull"} -> Str(<<"__", "isnull">>)
      [] OTHER -> Undef

\* URLSearchParams.append: the pair goes to the end
ParamsAppend(params, key, value) == Append(params, <<key, value>>)

\* URLSearchParams.set: the first pair of that name takes the value, the
\* others go; a new name is appended
ParamsSet(params, key, value) ==
    IF \E i \in 1..Len(params) : params[i][1] = key
    THEN LET first == CHOOSE i \in 1..Len(params) :
                        params[i][1] = key /\ \A j \in 1..(i - 1) : params[j][1] # key
             kept == {i \in 1..Len(params) : i = first \/ params[i][1] # key}
             Pick(i) == CHOOSE k \in kept : Cardinality({m \in kept : m < k}) = i - 1
         IN  [i \in 1..Cardinality(kept) |->
                IF Pick(i) = first THEN <<key, value>> ELSE params[Pick(i)]]
    ELSE Append(params, <<key, value>>)

\* addFilter(f)
addFilter(params, f) ==
    CASE f.operator = "isnull" ->
            ParamsAppend(params, <<f.field>> \o opMap(f.operator).l, <<"true">>)
      [] f.operator = "isnotnull" ->
            ParamsAppend(params, <<f.field>> \o opMap(f.operator).l, <<"false">>)
      [] OTHER ->
            LET suffix == Coalesce(opMap(f.operator), Str(<<>>))
            IN  ParamsAppend(params, <<f.field>> \o suffix.l, JSString(f.value))

\* walk(node): every leaf below the node is added, whatever the logic
RECURSIVE walk(_, _)
walk(params, node) ==
    LET RECURSIVE each(_, _)
        each(ps, i) ==
            IF i > Len(node.filters) THEN ps
            ELSE each(IF node.filters[i].isGroup THEN walk(ps, node.filters[i])
                      ELSE addFilter(ps, node.filters[i]),
                      i + 1)
    IN  each(params, 1)

\* window.kendoToFastapiQuery(state)
kendoToFastapiQuery(state) ==
    LET paged == IF state.skip.t = "num" /\ state.limit.t = "num"
                 THEN ParamsSet(ParamsSet(<<>>, <<"skip">>, JSString(state.skip)),
                                <<"limit">>, JSString(state.limit))
                 ELSE <<>>
        sorted == IF Len(state.sort) > 0
                  THEN ParamsSet(paged, <<"order_by">>,
                                 (IF state.sort[1].dir = "desc" THEN <<"-">> ELSE <<>>)
                                 \o <<state.sort[1].field>>)
                  ELSE paged
    IN  IF state.filter.t = "null" THEN sorted ELSE walk(sorted, state.filter.node)

\* Object.fromEntries(params): one property per name, in the order the names
\* first appear, each with the value of the last pair of that name
fromEntries(params) ==
    LET firsts == {i \in 1..Len(params) : \A j \in 1..(i - 1) : params[j][1] # params[i][1]}
        Pick(i) == CHOOSE k \in firsts : Cardinality({m \in firsts : m < k}) = i - 1
        Last(key) == CHOOSE i \in 1..Len(params) :
                        params[i][1] = key /\ \A j \in (i + 1)..Len(params) : params[j][1] # key
    IN  [i \in 1..Cardinality(firsts) |->
            <<params[Pick(i)][1], params[Last(params[Pick(i)][1])][2]>>]

\* parameterMap(data, 'read'): take becomes limit, page and pageSize go
parameterMap(gs) ==
    fromEntries(kendoToFastapiQuery(
        [skip |-> gs.skip, limit |-> gs.take, sort |-> gs.sort, filter |-> gs.filter]))

\* no React table is mounted
TableIdle ==
    /\ tbl = "none"
    /\ sorting = <<>>
    /\ columnFilters = <<>>
    /\ advFilters = <<>>
    /\ capturedAdv = <<>>
    /\ globalFilter = <<>>
    /\ pageIndex = 0
    /\ pageSize = PageSize
    /\ data = List(<<>>)
    /\ total = Num(0)
    /\ loading = FALSE
    /\ view = "list"
    /\ currentUser = 0
    /\ requests = [k \in 1..MaxReq |-> "none"]
    /\ nextId = 1
    /\ lastQuery = <<>>
    /\ pendingDeletes = {}
    /\ response = NoBody

\* pageSize: 100, pageable.pageSizes: [100, 250, 500]
GridPageSize == 100
GridPageSizes == {100, 250, 500}

\* the filter menus of the sessions grid: string and number operators
StringOperators == {"contains", "eq", "neq"}
NumberOperators == {"eq", "neq"}

GridLeaves ==
    {Leaf(f, op, Str(<<"a">>)) : f \in {"ext_id"}, op \in StringOperators}
    \cup {Leaf(f, op, Num(1)) : f \in {"msg_count", "status"}, op \in NumberOperators}

\* the expressions the filter menus build (extra: false): one leaf per
\* column, joined by "and"
GridFilters ==
    {[t |-> "null", node |-> Group("and", <<>>)]} \cup
    UNION {{[t |-> "object", node |-> Group("and", fs)] :
                fs \in {s \in [1..n -> GridLeaves] :
                            \A i, j \in 1..n : i # j => s[i].field # s[j].field}} :
           n \in 1..MaxLeaves}

\* sortable: true sorts by one column at a time; status is not sortable
GridSorts ==
    {<<>>} \cup {<<[field |-> f, dir |-> d]>> :
                    f \in {"ext_id", "msg_count"}, d \in {"asc", "desc"}}

\* the request state for page p
GridRequest(gs, p) ==
    [gs EXCEPT !.page = p + 1, !.skip = Num(p * gs.take.n)]

\* the grid is bound: the DataSource read its first page
InitGrid ==
    /\ TableIdle
    /\ SessionIdle
    /\ gridState = [take |-> Num(GridPageSize), skip |-> Num(0), page |-> 1,
                    pageSize |-> GridPageSize, sort |-> <<>>,
                    filter |-> [t |-> "null", node |-> Group("and", <<>>)]]
    /\ gridParams = parameterMap(gridState)

\* a filter menu is applied or cleared: back to the first page, read
GridFilter(f) ==
    /\ f # gridState.filter
    /\ gridState' = GridRequest([gridState EXCEPT !.filter = f], 0)
    /\ gridParams' = parameterMap(gridState')
    /\ UNCHANGED <<tableVars, sessionVars>>

\* a column header is clicked: read
GridSort(s) ==
    /\ s # gridState.sort
    /\ gridState' = [gridState EXCEPT !.sort = s]
    /\ gridParams' = parameterMap(gridState')
    /\ UNCHANGED <<tableVars, sessionVars>>

\* the pager: another page, read
GridPage(p) ==
    /\ p + 1 # gridState.page
    /\ gridState' = GridRequest(gridState, p)
    /\ gridParams' = parameterMap(gridState')
    /\ UNCHANGED <<tableVars, sessionVars>>

\* the pager: another page size, back to the first page, read
GridSetPageSize(sz) ==
    /\ sz # gridState.pageSize
    /\ gridState' = GridRequest([gridState EXCEPT !.pageSize = sz, !.take = Num(sz)], 0)
    /\ gridParams' = parameterMap(gridState')
    /\ UNCHANGED <<tableVars, sessionVars>>

NextGrid ==
    \/ \E f \in GridFilters : GridFilter(f)
    \/ \E s \in GridSorts : GridSort(s)
    \/ \E p \in 0..MaxPage : GridPage(p)
    \/ \E sz \in GridPageSizes : GridSetPageSize(sz)

SpecGrid == InitGrid /\ [][NextGrid]_vars

\* the operator suffixes the README documents for the API
DocumentedSuffixes == {"ilike", "like", "eq", "ne", "gt", "gte", "lt", "lte", "in"}

\* a parameter name of the form <field>__<suffix> with a documented suffix
DocumentedFilterKey(k) == Len(k) = 3 /\ k[2] = "__" /\ k[3] \in DocumentedSuffixes

\* C14: every filter parameter a client puts on a list request is named
\* <field>__<suffix> with a suffix the README documents; no other suffix
\* and no unsuffixed <field>= filter parameter is sent.
C14_DocumentedSuffixes ==
    /\ \A i \in 1..Len(gridParams) :
            \/ gridParams[i][1] \in {<<"skip">>, <<"limit">>, <<"order_by">>}
            \/ DocumentedFilterKey(gridParams[i][1])
    /\ lastQuery # <<>> =>
            \A i \in 1..Len(Pairs(lastQuery)) :
                \/ KeyOf(Pairs(lastQuery)[i]) \in {<<"skip">>, <<"limit">>, <<"order_by">>, <<"q">>}
                \/ DocumentedFilterKey(KeyOf(Pairs(lastQuery)[i]))

(***************************************************************************)
(* The session: the stored token, apiFetch, the dashboards' token check    *)
(***************************************************************************)
\* what localStorage may hold under "token": nothing, an empty string, a token
StoredTokens == {Null, Str(<<>>), Str(<<"t1">>), Str(<<"t2">>)}

\* the two versions of lib/api.ts
ApiImpls == {"api.ts", "part_001"}

\* HTTP statuses a server answers with
Statuses == {200, 204, 401, 500}

\* response bodies: JSON text, nothing, text that is not JSON
BodyKinds == {"json", "empty", "text"}

\* res.ok
Ok(status) == status \in 200..299

\* variant: the header is attached whenever the item exists
HasToken_NotNull(tok) == tok.t # "null"

\* if (token)
HasToken(tok) == Truthy(tok)

\* apiFetch up to its await: the token is read, the headers are built, the
\* request is sent
ApiFetchCall(impl) ==
    /\ client = "react" /\ isAuth = "true" /\ location = "/"
    /\ call.phase # "sent"
    /\ call' = [phase |-> "sent", caller |-> "effect", impl |-> impl, stored |-> token,
                authorization |-> IF HasToken(token)
                                  THEN Str(<<"Bearer ">> \o token.l) ELSE Undef,
                status |-> 0, body |-> "", outcome |-> "", error |-> <<>>]
    /\ UNCHANGED <<client, token, isAuth, location, testToken, loginForm>>
    /\ UNCHANGED <<tableVars, gridVars>>

\* does reading the body of a success response throw
\*   api.ts:    return res.json()
\*   part_001:  const text = await res.text(); return text ? JSON.parse(text) : {}
ParseThrows(impl, body) ==
    IF impl = "api.ts" THEN body # "json" ELSE body = "text"

\* the fetch of the call resolves with a response
ApiFetchResponse(status, body) ==
    /\ call.phase = "sent"
    /\ status = 204 => body = "empty"
    /\ call' = [call EXCEPT
                  !.phase = "done", !.status = status, !.body = body,
                  !.outcome = IF ~Ok(status) \/ ParseThrows(call.impl, body)
                              THEN "throws" ELSE "returns",
                  !.error = IF ~Ok(status) THEN <<"API error: ", ToString(status)>>
                            ELSE IF ParseThrows(call.impl, body) THEN <<"SyntaxError">>
                            ELSE <<>>]
    /\ UNCHANGED <<client, token, isAuth, location, testToken, loginForm>>
    /\ UNCHANGED <<tableVars, gridVars>>

\* a handler that was awaiting an apiFetch call when the user signed out
\* goes on after its await and calls apiFetch again (handleDelete refetches
\* the list) before the dashboard page is gone
ApiFetchFollowUp(impl) ==
    /\ client = "react" /\ isAuth = "false" /\ location = "/login"
    /\ loginForm = NoLogin
    /\ call.phase = "done" /\ call.outcome = "returns"
    /\ call' = [phase |-> "sent", caller |-> "handleDelete", impl |-> impl,
                stored |-> token,
                authorization |-> IF HasToken(token)
                                  THEN Str(<<"Bearer ">> \o token.l) ELSE Undef,
                status |-> 0, body |-> "", outcome |-> "", error |-> <<>>]
    /\ UNCHANGED <<client, token, isAuth, location, testToken, loginForm>>
    /\ UNCHANGED <<tableVars, gridVars>>

\* the fetch of the call rejects: the transport failed
ApiFetchTransportError ==
    /\ call.phase = "sent"
    /\ call' = [call EXCEPT !.phase = "done", !.outcome = "throws",
                            !.error = <<"TypeError">>]
    /\ UNCHANGED <<client, token, isAuth, location, testToken, loginForm>>
    /\ UNCHANGED <<tableVars, gridVars>>

\* DashboardLayout, the token check effect
TokenCheck ==
    /\ client = "react" /\ location = "/"
    /\ isAuth = "null" /\ testToken.phase = "none"
    /\ IF ~Truthy(token)
       THEN \* setIsAuth(false); the next render redirects
            /\ isAuth' = "false"
            /\ location' = "/login"
            /\ loginForm' = NoLogin
            /\ UNCHANGED testToken
       ELSE /\ testToken' = [phase |-> "pending", bearer |-> token]
            /\ UNCHANGED <<isAuth, location, loginForm>>
    /\ UNCHANGED <<client, token, call>>
    /\ UNCHANGED <<tableVars, gridVars>>

\* .then((res) => ...) of the test-token call
TestTokenResponse(status) ==
    /\ client = "react" /\ location = "/"
    /\ testToken.phase = "pending"
    /\ IF Ok(status)
       THEN /\ isAuth' = "true"
            /\ testToken' = [testToken EXCEPT !.phase = "ok"]
            /\ UNCHANGED <<token, location, loginForm>>
       ELSE /\ token' = Null
            /\ isAuth' = "false"
            /\ location' = "/login"
            /\ loginForm' = NoLogin
            /\ testToken' = [testToken EXCEPT !.phase = "rejected"]
    /\ UNCHANGED <<client, call>>
    /\ UNCHANGED <<tableVars, gridVars>>

\* .catch(() => setIsAuth(false)) of the test-token call
TestTokenTransportError ==
    /\ client = "react" /\ location = "/"
    /\ testToken.phase = "pending"
    /\ isAuth' = "false"
    /\ location' = "/login"
    /\ testToken' = [testToken EXCEPT !.phase = "failed"]
    /\ loginForm' = NoLogin
    /\ UNCHANGED <<client, token, call>>
    /\ UNCHANGED <<tableVars, gridVars>>

\* variant: the item stays in storage
removeItem_Kept(stored) == stored

\* localStorage.removeItem("token")
removeItem(stored) == Null

\* the Sign out button
SignOut ==
    /\ client = "react" /\ location = "/" /\ isAuth = "true"
    /\ token' = removeItem(token)
    /\ isAuth' = "false"
    /\ location' = "/login"
    /\ loginForm' = NoLogin
    /\ UNCHANGED <<client, testToken, call>>
    /\ UNCHANGED <<tableVars, gridVars>>

\* what POST /auth/access-token can resolve with: a JSON object with or
\* without an access_token, JSON null, or a body that is not JSON
AccessTokens == {Undef, Str(<<>>), Str(<<"t1">>), Str(<<"t2">>)}
LoginBodies ==
    {[kind |-> "object", access_token |-> a] : a \in AccessTokens}
    \cup {[kind |-> k, access_token |-> Undef] : k \in {"null", "text"}}

\* LoginPage.handleSubmit up to its await: setLoading(true), setError(null),
\* the POST is sent; the submit button is disabled while loading
handleSubmit ==
    /\ client = "react" /\ location = "/login"
    /\ ~loginForm.loading
    /\ loginForm' = [phase |-> "sent", loading |-> TRUE, error |-> Null, stored |-> FALSE]
    /\ UNCHANGED <<client, token, isAuth, location, testToken, call>>
    /\ UNCHANGED <<tableVars, gridVars>>

\* variant: the token is stored whenever the response has the property
StoresToken_Defined(res) == res.kind = "object" /\ res.access_token.t # "undef"

\* if (res.access_token)
StoresToken(res) == res.kind = "object" /\ Truthy(res.access_token)

\* r.json() rejects on a body that is not JSON; res.access_token of null
\* raises a TypeError
SubmitThrows(res) == res.kind \in {"null", "text"}

\* handleSubmit after its await: the POST resolved with `res`
handleSubmitResponse(res) ==
    /\ client = "react" /\ location = "/login"
    /\ loginForm.phase = "sent"
    /\ IF SubmitThrows(res)
       THEN \* catch: setError("Authorization error"); finally: setLoading(false)
            /\ loginForm' = [phase |-> "done", loading |-> FALSE,
                             error |-> Str(<<"Authorization error">>), stored |-> FALSE]
            /\ UNCHANGED <<token, location, isAuth, testToken, call>>
       ELSE IF StoresToken(res)
       THEN \* localStorage.setItem("token", ...); router.push("/")
            /\ token' = Str(JSString(res.access_token))
            /\ location' = "/"
            /\ isAuth' = "null"
            /\ testToken' = NoTest
            /\ call' = NoCall
            /\ loginForm' = [phase |-> "done", loading |-> FALSE, error |-> Null,
                             stored |-> TRUE]
       ELSE \* setError("Invalid username or password")
            /\ loginForm' = [phase |-> "done", loading |-> FALSE,
                             error |-> Str(<<"Invalid username or password">>),
                             stored |-> FALSE]
            /\ UNCHANGED <<token, location, isAuth, testToken, call>>
    /\ UNCHANGED client
    /\ UNCHANGED <<tableVars, gridVars>>

\* the POST rejects: the transport failed
handleSubmitTransportError ==
    /\ client = "react" /\ location = "/login"
    /\ loginForm.phase = "sent"
    /\ loginForm' = [phase |-> "done", loading |-> FALSE,
                     error |-> Str(<<"Authorization error">>), stored |-> FALSE]
    /\ UNCHANGED <<client, token, isAuth, location, testToken, call>>
    /\ UNCHANGED <<tableVars, gridVars>>

\* The Kendo pages: the script that runs when a page loads.
\*   window.isAuth = window.getToken('token'); redirect to /auth/ without it;
\*   checkAuth() sends the test-token call when window.isAuth is set
HtmlLoad ==
    /\ client = "html" /\ location = "/"
    /\ isAuth = "null"
    /\ IF Truthy(token)
       THEN /\ isAuth' = "true"
            /\ testToken' = [phase |-> "pending", bearer |-> token]
            /\ UNCHANGED location
       ELSE /\ isAuth' = "false"
            /\ location' = "/login"
            /\ UNCHANGED testToken
    /\ UNCHANGED <<client, token, call, loginForm>>
    /\ UNCHANGED <<tableVars, gridVars>>

\* setTimeout(() => checkAuth(), 60000): the check runs again
checkAuth ==
    /\ client = "html" /\ location = "/"
    /\ isAuth = "true" /\ testToken.phase \in {"ok", "rejected"}
    /\ testToken' = [testToken EXCEPT !.phase = "pending"]
    /\ UNCHANGED <<client, token, isAuth, location, call, loginForm>>
    /\ UNCHANGED <<tableVars, gridVars>>

\* .done(...) of checkAuth: the token object is stored again
checkAuthDone ==
    /\ client = "html" /\ location = "/"
    /\ testToken.phase = "pending"
    /\ token' = testToken.bearer
    /\ testToken' = [testToken EXCEPT !.phase = "ok"]
    /\ UNCHANGED <<client, isAuth, location, call, loginForm>>
    /\ UNCHANGED <<tableVars, gridVars>>

\* .fail(...) of checkAuth: the token is removed; the redirect is guarded
\* by !isAuth, and window.isAuth is still the token object read at load
checkAuthFail ==
    /\ client = "html" /\ location = "/"
    /\ testToken.phase = "pending"
    /\ token' = Null
    /\ location' = IF isAuth # "true" THEN "/login" ELSE location
    /\ testToken' = [testToken EXCEPT !.phase = "rejected"]
    /\ UNCHANGED <<client, isAuth, call, loginForm>>
    /\ UNCHANGED <<tableVars, gridVars>>

\* logout() of the Kendo pages, confirmed
logout ==
    /\ client = "html" /\ location = "/" /\ isAuth = "true"
    /\ token' = Null
    /\ location' = "/login"
    /\ UNCHANGED <<client, isAuth, testToken, call, loginForm>>
    /\ UNCHANGED <<tableVars, gridVars>>

\* the storage item is written or removed from outside the page (another
\* tab of the same origin signs in or out)
StorageChanged(v) ==
    /\ v # token
    /\ token' = v
    /\ UNCHANGED <<client, isAuth, location, testToken, call, loginForm>>
    /\ UNCHANGED <<tableVars, gridVars>>

\* a dashboard page starts to load with whatever the storage holds
InitSession ==
    /\ TableIdle
    /\ GridIdle
    /\ client \in {"react", "html"}
    /\ token \in (IF client = "react" THEN StoredTokens ELSE StoredTokens \ {Str(<<>>)})
    /\ isAuth = "null"
    /\ location = "/"
    /\ testToken = NoTest
    /\ call = NoCall
    /\ loginForm = NoLogin

NextSession ==
    \/ \E impl \in ApiImpls : ApiFetchCall(impl)
    \/ \E status \in Statuses, body \in BodyKinds : ApiFetchResponse(status, body)
    \/ ApiFetchTransportError
    \/ \E impl \in ApiImpls : ApiFetchFollowUp(impl)
    \/ TokenCheck
    \/ \E status \in Statuses : TestTokenResponse(status)
    \/ TestTokenTransportError
    \/ SignOut
    \/ handleSubmit
    \/ \E res \in LoginBodies : handleSubmitResponse(res)
    \/ handleSubmitTransportError
    \/ HtmlLoad
    \/ checkAuth
    \/ checkAuthDone
    \/ checkAuthFail
    \/ logout
    \/ \E v \in StoredTokens : StorageChanged(v)

SpecSession == InitSession /\ [][NextSession]_vars

\* C15: apiFetch attaches "Authorization: Bearer <token>" exactly when a
\* non-empty token is stored at the time of the call; without a stored
\* token the request is still sent, without the header, and a success
\* response with a JSON body is returned, not raised.
C15_BearerIffToken ==
    call.phase # "none" =>
        /\ (call.authorization.t # "undef") <=> (call.stored.t = "str" /\ call.stored.l # <<>>)
        /\ call.authorization.t # "undef" =>
                call.authorization = Str(<<"Bearer ">> \o call.stored.l)
        /\ (call.phase = "done" /\ call.authorization.t = "undef"
                /\ Ok(call.status) /\ call.body = "json") => call.outcome = "returns"

C15_Witness ==
    /\ call.phase = "done"
    /\ call.stored = Null
    /\ call.authorization = Undef
    /\ call.status = 200 /\ call.body = "json"
    /\ call.outcome = "returns"

\* C16: apiFetch fails exactly when the transport fails or the status is
\* outside the success range; on a non-success status the failure carries
\* the status code, on a success status apiFetch returns.
C16_FailsIffNotOk ==
    call.phase = "done" =>
        /\ (call.outcome = "throws") <=> (call.status = 0 \/ ~Ok(call.status))
        /\ (call.status # 0 /\ ~Ok(call.status)) =>
                call.error = <<"API error: ", ToString(call.status)>>
        /\ (call.status # 0 /\ Ok(call.status)) => call.outcome = "returns"

\* C20: the dashboard shows the authorized UI only after a token was found
\* in storage and the test-token call made with it returned a success
\* status; a non-success status removes the token and redirects to the
\* login page; without a stored token no test-token call is made and the
\* user is redirected.
C20_TokenCheck ==
    /\ [](isAuth = "true" => (testToken.phase = "ok" /\ Truthy(testToken.bearer)))
    /\ [][(testToken.phase = "pending" /\ testToken'.phase = "rejected") =>
            (token' = Null /\ location' = "/login")]_vars
    /\ [][(isAuth = "null" /\ testToken.phase = "none" /\ ~Truthy(token)
                /\ isAuth' # isAuth) =>
            (testToken'.phase = "none" /\ location' = "/login")]_vars

MaxSortColumns == 3
MaxEditorReq == 5

\* the accessor columns of the tables that show the editor, in column order
Columns(t) ==
    CASE t = "SessionsAdv" -> <<"id", "account_id", "ext_id", "msg_count">>
      [] t = "AccountsAdv" -> <<"id", "number", "type", "status">>
      [] OTHER -> <<"id", "name", "login", "created_at">>

\* table.getAllColumns().filter((column) => column.getCanSort())
sortableColumns(t) ==
    SubSeq(Columns(t), 1, IF MaxSortColumns < Len(Columns(t)) THEN MaxSortColumns
                          ELSE Len(Columns(t)))

\* variant: every sortable column is offered
availableColumns_All(t, sortingState) == sortableColumns(t)

\* sortableColumns.filter((col) => !sortingIds.has(col.id))
availableColumns(t, sortingState) ==
    SelectSeq(sortableColumns(t),
              LAMBDA c : \A i \in 1..Len(sortingState) : sortingState[i].id # c)

\* SortItem.allColumns: the row's own column, then the available ones
allColumns(t, sortingState, sort) ==
    <<sort.id>> \o availableColumns(t, sortingState)

\* the tables that render <AdvancedSortButton table={table} />
HasSortEditor(t) == t \in {"SessionsAdv", "AccountsAdv", "UsersAdv"}

\* "Add sort": the first available column, ascending
onSortAdd ==
    /\ HasSortEditor(tbl)
    /\ availableColumns(tbl, sorting) # <<>>
    /\ SetSorting(sorting \o <<[id |-> availableColumns(tbl, sorting)[1], desc |-> FALSE]>>)

\* a row's column select or direction select changed
onSortUpdate(sortId, updates) ==
    /\ HasSortEditor(tbl)
    /\ \E i \in 1..Len(sorting) :
            /\ sorting[i].id = sortId
            /\ updates.hasId =>
                    \E j \in 1..Len(allColumns(tbl, sorting, sorting[i])) :
                        allColumns(tbl, sorting, sorting[i])[j] = updates.id
    /\ SetSorting([i \in 1..Len(sorting) |->
                    IF sorting[i].id = sortId
                    THEN [id |-> IF updates.hasId THEN updates.id ELSE sorting[i].id,
                          desc |-> IF updates.hasDesc THEN updates.desc ELSE sorting[i].desc]
                    ELSE sorting[i]])

\* a row's remove button
onSortRemove(sortId) ==
    /\ HasSortEditor(tbl)
    /\ SetSorting(SelectSeq(sorting, LAMBDA item : item.id # sortId))

\* "Reset sorting"
onSortingReset ==
    /\ HasSortEditor(tbl)
    /\ Len(sorting) > 0
    /\ SetSorting(<<>>)

\* the updates a SortItem hands to onSortUpdate: { id } or { desc }
SortUpdates(t) ==
    {[hasId |-> TRUE, id |-> sortableColumns(t)[i], hasDesc |-> FALSE, desc |-> FALSE] :
        i \in 1..Len(sortableColumns(t))}
    \cup {[hasId |-> FALSE, id |-> "", hasDesc |-> TRUE, desc |-> b] : b \in BOOLEAN}

\* a table with the editor is mounted, its sort is empty
InitSort ==
    /\ SessionIdle
    /\ GridIdle
    /\ tbl \in {t \in Tables : HasSortEditor(t)}
    /\ sorting = <<>>
    /\ columnFilters = <<>>
    /\ advFilters = <<>>
    /\ capturedAdv = <<>>
    /\ globalFilter = <<>>
    /\ pageIndex = 0
    /\ pageSize = PageSize
    /\ data = List(<<>>)
    /\ total = Num(0)
    /\ view = "list"
    /\ currentUser = 0
    /\ pendingDeletes = {}
    /\ response = NoBody
    /\ loading = TRUE
    /\ requests = [k \in 1..MaxEditorReq |->
                     IF k <= (IF TwoEffects(tbl) THEN 2 ELSE 1) THEN "pending" ELSE "none"]
    /\ nextId = IF TwoEffects(tbl) THEN 3 ELSE 2
    /\ lastQuery = BuildQuery(tbl, 0, PageSize, <<>>, <<>>, <<>>, <<>>)

NextSort ==
    \/ onSortAdd
    \/ \E i \in 1..Len(sorting), u \in SortUpdates(tbl) : onSortUpdate(sorting[i].id, u)
    \/ \E i \in 1..Len(sorting) : onSortRemove(sorting[i].id)
    \/ onSortingReset
    \/ \E k \in DOMAIN requests : Respond(k)
    \/ \E k \in DOMAIN requests : RespondError(k)

SpecSort == InitSort /\ [][NextSort]_vars

\* C18: after any sequence of onSortAdd, onSortUpdate, onSortRemove and
\* onSortingReset from an empty sort, no two entries of the sort state have
\* the same column id.
C18_NoDuplicateSort ==
    \A i, j \in 1..Len(sorting) : i # j => sorting[i].id # sorting[j].id

C18_Witness ==
    /\ Len(sorting) = 2
    /\ sorting[1].id = sortableColumns(tbl)[MaxSortColumns]
    /\ sorting[1].desc
    /\ sorting[2].id = sortableColumns(tbl)[1]

(***************************************************************************)
(* Claims about the filters that are active together                       *)
(***************************************************************************)
\* the string ps occurs in the string q
Contains(q, ps) ==
    \E k \in 0..(Len(q) - Len(ps)) : SubSeq(q, k + 1, k + Len(ps)) = ps

\* the filter entries of the table state: column filters and URL filters,
\* each with its field and the parameters the encoder emits for it
FilterEntries ==
    {[kind |-> "column", at |-> i, field |-> columnFilters[i].id,
      params |-> filtersBasic(<<columnFilters[i]>>)] : i \in 1..Len(columnFilters)}
    \cup {[kind |-> "url", at |-> i, field |-> advFilters[i].id,
           params |-> FilterParams(tbl, advFilters[i])] : i \in 1..Len(advFilters)}

LegalOperators(variant) ==
    CASE variant = "text" -> {"iLike", "like", "eq", "ne"}
      [] variant = "number" -> {"eq", "ne", "gt", "gte", "lt", "lte"}
      [] OTHER -> {}

\* the parameter of the variant's default operator
DefaultParam(variant, id, val) ==
    IF variant = "text" THEN Param(id, "ilike", Wrap(JSString(val)))
    ELSE Param(id, "eq", JSString(val))

\* the query string of the mount request of a table without filters
BaseQuery == <<"skip", "=", "0", "&", "limit", "=", "10">>

\* C21: a text or number filter whose operator is not legal for its variant
\* (and is neither isEmpty nor isNotEmpty) is neither dropped nor rejected:
\* the list GET carries exactly one parameter for it, the one of the
\* variant's default operator (text: __ilike with %value%, number: __eq).
C21_IllegalOperatorCoerced ==
    (/\ nextId > 1
     /\ Len(advFilters) = 1
     /\ variantMap(tbl, advFilters[1].id) \in {"text", "number"}
     /\ ~IsNoOp(advFilters[1].operator)
     /\ advFilters[1].operator
            \notin LegalOperators(variantMap(tbl, advFilters[1].id))) =>
        lastQuery = BaseQuery \o DefaultParam(variantMap(tbl, advFilters[1].id),
                                              advFilters[1].id, advFilters[1].value)


\* C22: a URL filter whose field name is not a key of the table's variant
\* lookup is encoded exactly as a text filter with the same operator and
\* value, and building the query raises no error.
C22_UnknownFieldIsText ==
    (/\ Len(advFilters) = 1
     /\ advFilters[1].id \notin VariantKeys(tbl)
     /\ ~IsNoOp(advFilters[1].operator)) =>
        /\ nextId > 1
        /\ lastQuery = BaseQuery \o TextCase(advFilters[1].id, advFilters[1].operator,
                                             advFilters[1].value)


(***************************************************************************)
(* The range case of the sessions table's switch on its own: no lookup     *)
(* gives a field the range variant, so the case is entered directly        *)
(***************************************************************************)
\* a bound of a range value as the URL's JSON can hold it, or left out
RangeBounds == {Undef, Null, Num(0), Num(1), Str(<<"0">>), Str(<<"5">>)}

\* the values of a range filter: two bounds, one bound, or no array
RangeValues ==
    {List(<<a, b>>) : a, b \in RangeBounds} \cup {List(<<a>>) : a \in RangeBounds}
        \cup RangeBounds

RangeFields == {"msg_count", "id"}

InitRange ==
    /\ SessionIdle
    /\ GridIdle
    /\ tbl = "SessionsAdv"
    /\ sorting = <<>>
    /\ columnFilters = <<>>
    /\ advFilters \in {<<[id |-> f, operator |-> "isBetween", value |-> v]>> :
                            f \in RangeFields, v \in RangeValues}
    /\ capturedAdv = advFilters
    /\ globalFilter = <<>>
    /\ pageIndex = 0
    /\ pageSize = PageSize
    /\ data = List(<<>>)
    /\ total = Num(0)
    /\ loading = FALSE
    /\ view = "list"
    /\ currentUser = 0
    /\ requests = [k \in 1..MaxReq |-> "none"]
    /\ nextId = 1
    /\ lastQuery = <<>>
    /\ pendingDeletes = {}
    /\ response = NoBody

\* the query string of a list GET whose single filter takes case "range"
EncodeRange ==
    /\ lastQuery = <<>>
    /\ lastQuery' = BaseQuery \o RangeCase(advFilters[1].id, advFilters[1].value)
    /\ UNCHANGED <<tbl, sorting, columnFilters, advFilters, capturedAdv, globalFilter,
                   pageIndex, pageSize, data, total, loading, view, currentUser,
                   requests, nextId, pendingDeletes, response, sessionVars, gridVars>>

NextRange == EncodeRange

SpecRange == InitRange /\ [][NextRange]_vars

\* a bound that was given: neither undefined nor null
Present(v) == v.t \notin {"undef", "null"}

BothActive ==
    /\ \E i \in 1..Len(columnFilters) : columnFilters[i].value # <<>>
    /\ \E i \in 1..Len(advFilters) : FilterParams(tbl, advFilters[i]) # <<>>

\* <field>__ilike=%value% for every column filter with a value, in order,
\* followed by the parameters of every URL filter, in order
BasicThenAdvanced ==
    Join([i \in 1..Len(columnFilters) |->
            IF columnFilters[i].value # <<>>
            THEN <<"&", columnFilters[i].id, "__", "ilike", "=">>
                 \o encodeURIComponent(Wrap(columnFilters[i].value))
            ELSE <<>>], <<>>)
    \o Join([i \in 1..Len(advFilters) |-> FilterParams(tbl, advFilters[i])], <<>>)

C25_LoadingWhileOutstanding ==
    /\ []((\E k \in DOMAIN requests : requests[k] = "pending") => loading)
    /\ [][(loading /\ ~loading') =>
            \A k \in DOMAIN requests : requests'[k] # "pending"]_vars


(***************************************************************************)
(* The users screen and its form: a table mounted with any of a few URL    *)
(* filters, and the four handlers around the form                          *)
(***************************************************************************)
\* the URL filters the users screen is opened with; the last one is a date
\* filter whose value is not a time value
FormFilters ==
    {<<>>,
     <<[id |-> "id", operator |-> "eq", value |-> Str(<<"1">>)]>>,
     <<[id |-> "created_at", operator |-> "eq", value |-> Str(<<"x">>)]>>}

InitForm ==
    /\ SessionIdle
    /\ GridIdle
    /\ tbl \in {t \in Tables : HasForm(t)}
    /\ sorting = <<>>
    /\ columnFilters = <<>>
    /\ advFilters \in (IF UsesFilters(tbl) THEN FormFilters ELSE {<<>>})
    /\ capturedAdv = advFilters
    /\ globalFilter = <<>>
    /\ pageIndex = 0
    /\ pageSize = PageSize
    /\ data = List(<<>>)
    /\ total = Num(0)
    /\ view = "list"
    /\ currentUser = 0
    /\ pendingDeletes = {}
    /\ response = NoBody
    \* the mount effect has run
    /\ IF UsesFilters(tbl) /\ buildFilterQueryThrows(tbl, advFilters)
       THEN /\ loading = FALSE
            /\ requests = [k \in 1..MaxReq |-> "none"]
            /\ nextId = 1
            /\ lastQuery = <<>>
       ELSE /\ loading = TRUE
            /\ requests = [k \in 1..MaxReq |-> IF k = 1 THEN "pending" ELSE "none"]
            /\ nextId = 2
            /\ lastQuery = BuildQuery(tbl, 0, PageSize, <<>>, <<>>, <<>>, advFilters)

NextForm ==
    \/ handleAdd
    \/ \E u \in 1..MaxReq : handleEdit(u)
    \/ handleSuccess
    \/ handleCancel
    \/ \E k \in DOMAIN requests : Respond(k)
    \/ \E k \in DOMAIN requests : RespondError(k)

SpecForm == InitForm /\ [][NextForm]_vars

\* C26: in the users screen view = "edit" goes with the user handed to the
\* last handleEdit and view = "list" or "create" with no current user;
\* handleCancel returns to the list without a list GET, handleSuccess
\* returns to the list and issues exactly one list GET.
C26_FormHandlers ==
    /\ [](view \in {"list", "create"} => currentUser = 0)
    /\ [][\A u \in 1..MaxReq : handleEdit(u) => (view' = "edit" /\ currentUser' = u)]_vars
    /\ [][(view = "edit" /\ view' = "edit") => currentUser' = currentUser]_vars
    /\ [][handleCancel => (view' = "list" /\ requests' = requests /\ nextId' = nextId)]_vars
    /\ [][handleSuccess =>
            /\ view' = "list"
            /\ nextId' = nextId + 1
            /\ requests' = [requests EXCEPT ![nextId] = "pending"]]_vars


(***************************************************************************)
(* Paging of the users screen against a server whose row count changes     *)
(***************************************************************************)
\* the row counts the server can have when it answers
ServerTotals == {0, PageSize, PageSize + 1}

\* the skip parameter of the most recent list GET
LastSkip ==
    CHOOSE s \in {p * z : p \in 0..MaxPage, z \in PageSizes} :
        ValueOf(ValuesOf(lastQuery, <<"skip">>)[1]) = <<ToString(s)>>

\* the list endpoint answers the most recent GET while it holds n rows: the
\* page is empty when skip is at or past the end
RespondPage(n) ==
    /\ LatestPending
    /\ Deliver(nextId - 1,
               ObjBody(List(IF LastSkip < n THEN <<nextId - 1>> ELSE <<>>),
                       Undef, Undef, Num(n)))

InitPaging == Init /\ ServerPaged(tbl) /\ HasDelete(tbl)

NextPaging ==
    \/ \E p \in 0..MaxPage : SetPage(p)
    \/ Refresh
    \/ HandleDelete
    \/ \E d \in pendingDeletes : DeleteDone(d)
    \/ \E d \in pendingDeletes : DeleteFailed(d)
    \/ \E n \in ServerTotals : RespondPage(n)
    \/ \E k \in DOMAIN requests : RespondError(k)

SpecPaging == InitPaging /\ [][NextPaging]_vars

Min(a, b) == IF a <= b THEN a ELSE b

\* C27: whenever total > 0 the range of "Showing a to b of total", with
\* a = pageIndex * pageSize + 1 and b = min((pageIndex + 1) * pageSize,
\* total), satisfies a <= b <= total: pageIndex stays below the page count.
C27_ShownRange ==
    (total.t = "num" /\ total.n > 0) =>
        /\ pageIndex * pageSize + 1 <= Min((pageIndex + 1) * pageSize, total.n)
        /\ Min((pageIndex + 1) * pageSize, total.n) <= total.n


(***************************************************************************)
(* kendoToFastapiQuery and parameterMap over any filter tree: the data     *)
(* source holds a filter expression and reads                              *)
(***************************************************************************)
\* the leaves of the trees: the menus' leaves and a second value for ext_id
TreeLeaves == GridLeaves \cup {Leaf("ext_id", "contains", Str(<<"b">>))}

Logics == {"and", "or"}

\* groups of one or two leaves, and groups of a leaf and such a group
FlatGroups ==
    {Group(lg, <<a>>) : lg \in Logics, a \in TreeLeaves}
    \cup {Group(lg, <<a, b>>) : lg \in Logics, a \in TreeLeaves, b \in TreeLeaves}

FilterTrees ==
    FlatGroups \cup {Group(lg, <<a, g>>) : lg \in Logics, a \in TreeLeaves, g \in FlatGroups}

InitTree ==
    /\ TableIdle
    /\ SessionIdle
    /\ gridState \in {[take |-> Num(GridPageSize), skip |-> Num(0), page |-> 1,
                       pageSize |-> GridPageSize, sort |-> <<>>,
                       filter |-> [t |-> "object", node |-> n]] : n \in FilterTrees}
    /\ gridParams = <<>>

\* transport.read: parameterMap(data, 'read')
GridRead ==
    /\ gridParams = <<>>
    /\ gridParams' = parameterMap(gridState)
    /\ UNCHANGED <<tableVars, sessionVars, gridState>>

NextTree == GridRead

SpecTree == InitTree /\ [][NextTree]_vars

\* the leaves below a node, in the order walk visits them
RECURSIVE LeavesOf(_)
LeavesOf(node) ==
    IF ~node.isGroup THEN <<node>>
    ELSE LET RECURSIVE each(_)
             each(i) == IF i > Len(node.filters) THEN <<>>
                        ELSE LeavesOf(node.filters[i]) \o each(i + 1)
         IN  each(1)

\* the parameters of a read that are not skip, limit or order_by
FilterParamsSent ==
    SelectSeq(gridParams, LAMBDA p : p[1] \notin {<<"skip">>, <<"limit">>, <<"order_by">>})

HasAccessToken(res) ==
    res.kind = "object" /\ res.access_token.t = "str" /\ res.access_token.l # <<>>

\* C29: a login attempt changes the stored token exactly when the response
\* of POST /auth/access-token holds an access_token (a non-empty one), and
\* then the stored value is that token; without one, or when the request
\* throws, the stored token or its absence stays as it was and an error
\* message is set; in every case loading is false once the attempt ended.
C29_LoginStoresToken ==
    /\ [](loginForm.phase = "done" => ~loginForm.loading)
    /\ [][handleSubmit => token' = token]_vars
    /\ [][\A res \in LoginBodies :
            handleSubmitResponse(res) =>
                /\ ~loginForm'.loading
                /\ IF HasAccessToken(res)
                   THEN token' = res.access_token
                   ELSE token' = token /\ loginForm'.error # Null]_vars
    /\ [][handleSubmitTransportError =>
            (token' = token /\ loginForm'.error # Null /\ ~loginForm'.loading)]_vars

C29_Witness ==
    /\ loginForm = [phase |-> "done", loading |-> FALSE, error |-> Null, stored |-> TRUE]
    /\ token = Str(<<"t2">>)
    /\ location = "/"


\* C30: the sign-out leaves no token in storage and isAuth false; from then
\* on an apiFetch call, also one issued by a handler that was in flight at
\* the sign-out, carries no Authorization header while no token is stored,
\* and a token comes back only through a login attempt that stores one
\* (in this tab, or in another tab of the origin).
C30_SignedOut ==
    /\ [][SignOut => (token' = Null /\ isAuth' = "false")]_vars
    /\ [][(client = "react" /\ isAuth = "false" /\ call' # call /\ call'.phase = "sent"
                /\ token = Null) =>
            call'.authorization = Undef]_vars
    /\ [][(client = "react" /\ isAuth = "false" /\ token = Null /\ token' # Null) =>
            \/ \E res \in LoginBodies : HasAccessToken(res) /\ handleSubmitResponse(res)
            \/ \E v \in StoredTokens : StorageChanged(v)]_vars

C30_Witness ==
    /\ client = "react" /\ isAuth = "false" /\ location = "/login"
    /\ token = Null
    /\ call.phase = "sent" /\ call.caller = "handleDelete"
    /\ call.authorization = Undef

====
